---- MODULE Spec2Model ----
(***************************************************************************)
(* Model of task/analyzer/code_analyzer.py: the line scanner               *)
(* (code_analyzer and its check_* rules), the tree scanner (Analyzer,      *)
(* analyze_code) and the drivers read_file / read_directory / main.        *)
(*                                                                         *)
(* A line of text is a sequence of one-character strings, terminator       *)
(* included, as file.readlines() returns it.                               *)
(***************************************************************************)
EXTENDS Integers, Sequences, FiniteSets, TLC

----------------------------------------------------------------------------
(* Characters and the str methods the rules use.                           *)

LowerLetters == <<"a","b","c","d","e","f","g","h","i","j","k","l","m",
                  "n","o","p","q","r","s","t","u","v","w","x","y","z">>

UpperLetters == <<"A","B","C","D","E","F","G","H","I","J","K","L","M",
                  "N","O","P","Q","R","S","T","U","V","W","X","Y","Z">>

DigitChars == {"0","1","2","3","4","5","6","7","8","9"}

\* str.islower() / str.isupper() / str.isalpha() of a one-character string
islower(c) == \E i \in 1..Len(LowerLetters) : LowerLetters[i] = c

isupper(c) == \E i \in 1..Len(UpperLetters) : UpperLetters[i] = c

isalpha(c) == islower(c) \/ isupper(c)

\* str.upper() of one character
upper(c) ==
    IF islower(c)
    THEN UpperLetters[CHOOSE i \in 1..Len(LowerLetters) : LowerLetters[i] = c]
    ELSE c

\* the characters str.strip(), str.rstrip() and the regex class \s remove/match
IsSpace(c) == c \in {" ", "\t", "\n", "\r", "\f"}

\* the regex class \w
IsWord(c) == isalpha(c) \/ c \in DigitChars \/ c = "_"

\* number of leading spaces of s (spaceOnly), or of leading whitespace characters
RECURSIVE LeadCount(_, _)
LeadCount(s, spaceOnly) ==
    IF s = << >> THEN 0
    ELSE IF (IF spaceOnly THEN Head(s) = " " ELSE IsSpace(Head(s)))
         THEN 1 + LeadCount(Tail(s), spaceOnly)
         ELSE 0

RECURSIVE TrailCount(_)
TrailCount(s) ==
    IF s = << >> THEN 0
    ELSE IF IsSpace(s[Len(s)]) THEN 1 + TrailCount(SubSeq(s, 1, Len(s) - 1))
         ELSE 0

\* line.rstrip()
rstrip(s) == SubSeq(s, 1, Len(s) - TrailCount(s))

\* line.lstrip(' ')
lstrip_spaces(s) == SubSeq(s, LeadCount(s, TRUE) + 1, Len(s))

\* line.strip()
strip(s) ==
    LET r == rstrip(s) IN SubSeq(r, LeadCount(r, FALSE) + 1, Len(r))

\* line.find(c): 0-based index of the first c, -1 when there is none
find(s, c) ==
    IF \E i \in 1..Len(s) : s[i] = c
    THEN (CHOOSE i \in 1..Len(s) : s[i] = c /\ \A j \in 1..(i - 1) : s[j] # c) - 1
    ELSE -1

\* line.startswith(p)
startswith(s, p) == Len(s) >= Len(p) /\ SubSeq(s, 1, Len(p)) = p

\* p in s (substring test)
contains(s, p) ==
    \E i \in 1..(Len(s) - Len(p) + 1) : SubSeq(s, i, i + Len(p) - 1) = p

\* s[n:] and s[:-n] (Python slices, never out of range)
slice_from(s, n) == SubSeq(s, n + 1, Len(s))

slice_drop_last(s, n) == SubSeq(s, 1, Len(s) - n)

\* the regex anchor $ (no MULTILINE) holds after the first k characters of s:
\* at the end, or just before a newline that ends s
AtDollar(s, k) == k = Len(s) \/ (k = Len(s) - 1 /\ s[Len(s)] = "\n")

----------------------------------------------------------------------------
(* The line rules. Each stateless rule is TRUE when the check raises its   *)
(* diagnostic exception.                                                   *)

MaxLineLength == 79

IndentUnit == 4

MaxBlankLines == 2

check_length(line) == Len(rstrip(line)) > MaxLineLength

\* comment_part.upper()
upper_all(s) == [i \in 1..Len(s) |-> upper(s[i])]

check_todo(line) ==
    /\ find(line, "#") >= 0
    /\ contains(upper_all(slice_from(line, find(line, "#") + 1)),
                <<"T","O","D","O">>)

\* re.search(r"(.*)(;(\s)*#|;$)", line)
SemicolonPattern(line) ==
    \E i \in 1..Len(line) :
        /\ line[i] = ";"
        /\ \/ \E j \in (i + 1)..Len(line) :
                 /\ line[j] = "#"
                 /\ \A k \in (i + 1)..(j - 1) : IsSpace(line[k])
           \/ AtDollar(line, i)

\* re.search(r"#.*;", line)
CommentSemicolonPattern(line) ==
    \E i \in 1..Len(line) : \E j \in (i + 1)..Len(line) :
        /\ line[i] = "#"
        /\ line[j] = ";"
        /\ \A k \in (i + 1)..(j - 1) : line[k] # "\n"

check_semicolon(line) == SemicolonPattern(line) /\ ~CommentSemicolonPattern(line)

check_indentation(line) ==
    LET leading_spaces == Len(line) - Len(lstrip_spaces(line))
    IN  leading_spaces % IndentUnit # 0

\* re.search(r"  $", preceding_text)
TwoSpacesAtEnd(s) ==
    \E k \in 2..Len(s) : s[k - 1] = " " /\ s[k] = " " /\ AtDollar(s, k)

check_spaces(line) ==
    LET comment_start == find(line, "#")
    IN  /\ comment_start > 0
        /\ ~TwoSpacesAtEnd(SubSeq(line, 1, comment_start))

\* check_blanks returns the new counter or raises Blank
check_blanks(line, blank_line_count) ==
    IF strip(line) = << >>
    THEN [raised |-> FALSE, count |-> blank_line_count + 1]
    ELSE IF blank_line_count > MaxBlankLines
         THEN [raised |-> TRUE, count |-> blank_line_count]
         ELSE [raised |-> FALSE, count |-> 0]

KwClass == <<"c","l","a","s","s">>

KwDef == <<"d","e","f">>

\* ^kw(?: {0}| {2,})\w on the stripped line
SpacesAfter(s, kw) ==
    /\ startswith(s, kw)
    /\ LET rest == slice_from(s, Len(kw))
           n == LeadCount(rest, TRUE)
       IN  /\ n # 1
           /\ Len(rest) > n
           /\ IsWord(rest[n + 1])

check_spaces_after_class(line) ==
    SpacesAfter(strip(line), KwClass) \/ SpacesAfter(strip(line), KwDef)

\* class_name = line[6:][:-2]
class_name(line) == slice_drop_last(slice_from(line, 6), 2)

\* "return": no diagnostic; "raise": ClassName raised; "IndexError": class_name[0]
\* on an empty string
check_class_name(line) ==
    IF ~startswith(line, KwClass) THEN "return"
    ELSE IF class_name(line) = << >> THEN "IndexError"
    ELSE IF islower(class_name(line)[1]) THEN "raise"
    ELSE "return"

\* function_name = line.strip()[4:][:-2]
function_name(line) == slice_drop_last(slice_from(strip(line), 4), 2)

check_function_name(line) ==
    IF ~startswith(strip(line), KwDef) THEN "return"
    ELSE IF function_name(line) = << >> THEN "IndexError"
    ELSE IF isalpha(function_name(line)[1]) /\ isupper(function_name(line)[1])
         THEN "raise"
    ELSE "return"

\* the diagnostics one iteration of code_analyzer's loop prints for `line`, in
\* the order it prints them, the counter it leaves, and whether an exception
\* other than the nine diagnostic exceptions propagated out of the loop
\* mutant: check_todo placed before check_spaces in the list of checks
FirstChecks_TodoFirst(line) ==
    (IF check_length(line) THEN <<"S001">> ELSE << >>) \o
    (IF check_indentation(line) THEN <<"S002">> ELSE << >>) \o
    (IF check_semicolon(line) THEN <<"S003">> ELSE << >>) \o
    (IF check_todo(line) THEN <<"S005">> ELSE << >>) \o
    (IF check_spaces(line) THEN <<"S004">> ELSE << >>)

FirstChecks(line) ==
    (IF check_length(line) THEN <<"S001">> ELSE << >>) \o
    (IF check_indentation(line) THEN <<"S002">> ELSE << >>) \o
    (IF check_semicolon(line) THEN <<"S003">> ELSE << >>) \o
    (IF check_spaces(line) THEN <<"S004">> ELSE << >>) \o
    (IF check_todo(line) THEN <<"S005">> ELSE << >>)

BlankCheck(line, blank_line_count) ==
    LET b == check_blanks(line, blank_line_count)
    IN  IF b.raised THEN [codes |-> <<"S006">>, count |-> 0]
        ELSE [codes |-> << >>, count |-> b.count]

NewCheckers(line) ==
    LET s7 == IF check_spaces_after_class(line) THEN <<"S007">> ELSE << >>
        s8 == IF check_class_name(line) = "raise" THEN <<"S008">> ELSE << >>
        s9 == IF check_function_name(line) = "raise" THEN <<"S009">> ELSE << >>
    IN  IF check_class_name(line) = "IndexError"
        THEN [codes |-> s7, escaped |-> TRUE]
        ELSE IF check_function_name(line) = "IndexError"
             THEN [codes |-> s7 \o s8, escaped |-> TRUE]
             ELSE [codes |-> s7 \o s8 \o s9, escaped |-> FALSE]

code_analyzer_line(line, blank_line_count) ==
    LET b == BlankCheck(line, blank_line_count)
        c == NewCheckers(line)
    IN  [codes   |-> FirstChecks(line) \o b.codes \o c.codes,
         count   |-> b.count,
         escaped |-> c.escaped]

----------------------------------------------------------------------------
(* The tree scanner. A syntax tree is the sequence of its nodes; a node    *)
(* names its children by their index, in the order ast.iter_child_nodes    *)
(* yields them (expression contexts, which have no fields, are left out).  *)
(* Index 0 stands for None in kw_defaults.                                 *)

Node(kind, lineno, id, ctx, children) ==
    [kind |-> kind, lineno |-> lineno, id |-> id, ctx |-> ctx,
     children |-> children, args |-> << >>, kwonlyargs |-> << >>,
     defaults |-> << >>, kw_defaults |-> << >>]

FunctionDefNode(lineno, name, children, args, kwonlyargs, defaults, kw_defaults) ==
    [kind |-> "FunctionDef", lineno |-> lineno, id |-> name, ctx |-> "",
     children |-> children, args |-> args, kwonlyargs |-> kwonlyargs,
     defaults |-> defaults, kw_defaults |-> kw_defaults]

\* SNAKE_CASE_PATTERN.match(name): ^[a-z_][a-z0-9_]*$
SnakeChar(c, first) == islower(c) \/ c = "_" \/ (~first /\ c \in DigitChars)

is_snake_case(name) ==
    \E k \in 1..Len(name) :
        /\ \A i \in 1..k : SnakeChar(name[i], i = 1)
        /\ AtDollar(name, k)

MutableKinds == {"List", "Dict", "Set"}

\* the S010 entries visit_FunctionDef appends for the parameters `as`
RECURSIVE ArgErrors(_, _, _)
ArgErrors(tree, lineno, as) ==
    IF as = << >> THEN << >>
    ELSE (IF ~is_snake_case(tree[Head(as)].id)
          THEN << [line |-> lineno, code |-> "S010"] >> ELSE << >>)
         \o ArgErrors(tree, lineno, Tail(as))

\* the S012 entries visit_FunctionDef appends for the default values `ds`
RECURSIVE DefaultErrors(_, _, _)
DefaultErrors(tree, lineno, ds) ==
    IF ds = << >> THEN << >>
    ELSE (IF Head(ds) # 0 /\ tree[Head(ds)].kind \in MutableKinds
          THEN << [line |-> lineno, code |-> "S012"] >> ELSE << >>)
         \o DefaultErrors(tree, lineno, Tail(ds))

\* mutant: only node.args.args and node.args.defaults are looked at
visit_FunctionDef_ArgsOnly(tree, n) ==
    LET node == tree[n]
    IN  ArgErrors(tree, node.lineno, node.args)
        \o DefaultErrors(tree, node.lineno, node.defaults)

visit_FunctionDef(tree, n) ==
    LET node == tree[n]
    IN  ArgErrors(tree, node.lineno, node.args \o node.kwonlyargs)
        \o DefaultErrors(tree, node.lineno, node.defaults \o node.kw_defaults)

visit_Name(tree, n) ==
    IF tree[n].ctx = "Store" /\ ~is_snake_case(tree[n].id)
    THEN << [line |-> tree[n].lineno, code |-> "S011"] >>
    ELSE << >>

\* what NodeVisitor.visit(node) appends to self.errors before it descends
VisitErrors(tree, n) ==
    IF tree[n].kind = "FunctionDef" THEN visit_FunctionDef(tree, n)
    ELSE IF tree[n].kind = "Name" THEN visit_Name(tree, n)
    ELSE << >>

\* mutant: visit_FunctionDef without its closing self.generic_visit(node)
generic_visit_NotBelowDef(tree, n) ==
    IF tree[n].kind = "FunctionDef" THEN << >> ELSE tree[n].children

\* the nodes generic_visit(node) goes on to visit, in order
generic_visit(tree, n) == tree[n].children

----------------------------------------------------------------------------
(* The files the model runs on: the lines readlines() returns and the tree *)
(* ast.parse builds from the same text.                                    *)

\* Sample.py
\*   |def f(badName=[]):
\*   |    xVal = 1
SampleLines ==
  << <<"d","e","f"," ","f","(","b","a","d","N","a","m","e","=","[","]",")",":","\n">>,
     <<" "," "," "," ","x","V","a","l"," ","="," ","1","\n">> >>

SampleTree ==
  <<
    Node("Module", 0, <<>>, "", <<2>>),
    FunctionDefNode(1, <<"f">>, <<3, 6>>,
                    <<4>>, <<>>, <<5>>, <<>>),
    Node("arguments", 0, <<>>, "", <<4, 5>>),
    Node("arg", 1, <<"b","a","d","N","a","m","e">>, "", <<>>),
    Node("List", 1, <<>>, "Load", <<>>),
    Node("Assign", 2, <<>>, "", <<7, 8>>),
    Node("Name", 2, <<"x","V","a","l">>, "Store", <<>>),
    Node("Constant", 2, <<>>, "", <<>>)
  >>

\* Nested.py
\*   |class myClass:
\*   |    def Meth(self, *, kwArg={}, ok):
\*   |        def inner(a, B={1}):
\*   |            Y = a
\*   |        return inner
NestedLines ==
  << <<"c","l","a","s","s"," ","m","y","C","l","a","s","s",":","\n">>,
     <<" "," "," "," ","d","e","f"," ","M","e","t","h","(","s","e","l","f",","," ","*",","," ","k","w","A","r","g","=","{","}",","," ","o","k",")",":","\n">>,
     <<" "," "," "," "," "," "," "," ","d","e","f"," ","i","n","n","e","r","(","a",","," ","B","=","{","1","}",")",":","\n">>,
     <<" "," "," "," "," "," "," "," "," "," "," "," ","Y"," ","="," ","a","\n">>,
     <<" "," "," "," "," "," "," "," ","r","e","t","u","r","n"," ","i","n","n","e","r","\n">> >>

NestedTree ==
  <<
    Node("Module", 0, <<>>, "", <<2>>),
    Node("ClassDef", 1, <<"m","y","C","l","a","s","s">>, "", <<3>>),
    FunctionDefNode(2, <<"M","e","t","h">>, <<4, 9, 18>>,
                    <<5>>, <<6, 7>>, <<>>, <<8, 0>>),
    Node("arguments", 0, <<>>, "", <<5, 6, 7, 8>>),
    Node("arg", 2, <<"s","e","l","f">>, "", <<>>),
    Node("arg", 2, <<"k","w","A","r","g">>, "", <<>>),
    Node("arg", 2, <<"o","k">>, "", <<>>),
    Node("Dict", 2, <<>>, "", <<>>),
    FunctionDefNode(3, <<"i","n","n","e","r">>, <<10, 15>>,
                    <<11, 12>>, <<>>, <<13>>, <<>>),
    Node("arguments", 0, <<>>, "", <<11, 12, 13>>),
    Node("arg", 3, <<"a">>, "", <<>>),
    Node("arg", 3, <<"B">>, "", <<>>),
    Node("Set", 3, <<>>, "", <<14>>),
    Node("Constant", 3, <<>>, "", <<>>),
    Node("Assign", 4, <<>>, "", <<16, 17>>),
    Node("Name", 4, <<"Y">>, "Store", <<>>),
    Node("Name", 4, <<"a">>, "Load", <<>>),
    Node("Return", 5, <<>>, "", <<19>>),
    Node("Name", 5, <<"i","n","n","e","r">>, "Load", <<>>)
  >>

\* Styled.py
\*   |x = 1;
\*   |xxxxxxxxxxxxxxxxxxxx ... xxxxxxxxxx = 1# TODO
\*   | 
\*   |
\*   |
\*   |def  foo():
\*   |  return 1 # todo;
StyledLines ==
  << <<"x"," ","="," ","1",";","\n">>,
     [i \in 1..76 |-> "x"] \o <<" ","="," ","1","#"," ","T","O","D","O","\n">>,
     <<" ","\n">>,
     <<"\n">>,
     <<"\n">>,
     <<"d","e","f"," "," ","f","o","o","(",")",":","\n">>,
     <<" "," ","r","e","t","u","r","n"," ","1"," ","#"," ","t","o","d","o",";">> >>

StyledTree ==
  <<
    Node("Module", 0, <<>>, "", <<2, 5, 8>>),
    Node("Assign", 1, <<>>, "", <<3, 4>>),
    Node("Name", 1, <<"x">>, "Store", <<>>),
    Node("Constant", 1, <<>>, "", <<>>),
    Node("Assign", 2, <<>>, "", <<6, 7>>),
    Node("Name", 2, [i \in 1..76 |-> "x"], "Store", <<>>),
    Node("Constant", 2, <<>>, "", <<>>),
    FunctionDefNode(6, <<"f","o","o">>, <<9, 10>>,
                    <<>>, <<>>, <<>>, <<>>),
    Node("arguments", 0, <<>>, "", <<>>),
    Node("Return", 7, <<>>, "", <<11>>),
    Node("Constant", 7, <<>>, "", <<>>)
  >>

\* Late.py
\*   |Bad = 1
\*   |Ok = Bad; # x
LateLines ==
  << <<"B","a","d"," ","="," ","1","\n">>,
     <<"O","k"," ","="," ","B","a","d",";"," ","#"," ","x","\n">> >>

LateTree ==
  <<
    Node("Module", 0, <<>>, "", <<2, 5>>),
    Node("Assign", 1, <<>>, "", <<3, 4>>),
    Node("Name", 1, <<"B","a","d">>, "Store", <<>>),
    Node("Constant", 1, <<>>, "", <<>>),
    Node("Assign", 2, <<>>, "", <<6, 7>>),
    Node("Name", 2, <<"O","k">>, "Store", <<>>),
    Node("Name", 2, <<"B","a","d">>, "Load", <<>>)
  >>

\* Broken.py
\*   |x = (
\*   |y = 1 # c
BrokenLines ==
  << <<"x"," ","="," ","(","\n">>,
     <<"y"," ","="," ","1"," ","#"," ","c","\n">> >>

\* ast.parse(code) raises SyntaxError on Broken.py

\* Short.py
\*   |classy
\*   |Bad = 1
ShortLines ==
  << <<"c","l","a","s","s","y","\n">>,
     <<"B","a","d"," ","="," ","1","\n">> >>

ShortTree ==
  <<
    Node("Module", 0, <<>>, "", <<2, 4>>),
    Node("Expr", 1, <<>>, "", <<3>>),
    Node("Name", 1, <<"c","l","a","s","s","y">>, "Load", <<>>),
    Node("Assign", 2, <<>>, "", <<5, 6>>),
    Node("Name", 2, <<"B","a","d">>, "Store", <<>>),
    Node("Constant", 2, <<>>, "", <<>>)
  >>


\* what open() / ast.parse do on each file of the corpus
CorpusKeys == {"Sample", "Nested", "Styled", "Late", "Broken", "Short",
               "Missing", "Denied"}

\* "missing": open raises FileNotFoundError; "denied": open raises another
\* OSError (PermissionError)
Access(key) ==
    IF key = "Missing" THEN "missing"
    ELSE IF key = "Denied" THEN "denied"
    ELSE "ok"

Lines(key) ==
    CASE key = "Sample" -> SampleLines
      [] key = "Nested" -> NestedLines
      [] key = "Styled" -> StyledLines
      [] key = "Late"   -> LateLines
      [] key = "Broken" -> BrokenLines
      [] key = "Short"  -> ShortLines
      [] OTHER          -> << >>

\* ast.parse(code): FALSE when it raises SyntaxError
Parses(key) == key # "Broken"

Tree(key) ==
    CASE key = "Sample" -> SampleTree
      [] key = "Nested" -> NestedTree
      [] key = "Styled" -> StyledTree
      [] key = "Late"   -> LateTree
      [] key = "Short"  -> ShortTree
      [] OTHER          -> << >>

----------------------------------------------------------------------------
(* Bounds of the model.                                                    *)

\* number of file names a directory may hold
MaxFiles == 2

\* longest generated line (terminator not counted) of a one-line file
MaxLen == 4

\* longest generated file of short lines
MaxLines == 5

Names == 1..MaxFiles

\* sequences over S of length at most n
RECURSIVE SeqsUpTo(_, _)
SeqsUpTo(S, n) ==
    IF n = 0 THEN { << >> }
    ELSE LET shorter == SeqsUpTo(S, n - 1)
         IN  shorter \cup { Append(s, e) : s \in { t \in shorter : Len(t) = n - 1 }, e \in S }

\* sequences of distinct names: what os.listdir may return
Listings == { s \in SeqsUpTo(Names, MaxFiles) :
                \A i, j \in 1..Len(s) : i # j => s[i] # s[j] }

Range(s) == { s[i] : i \in 1..Len(s) }

\* files.sort()
RECURSIVE sorted(_)
sorted(S) ==
    IF S = {} THEN << >>
    ELSE LET m == CHOOSE e \in S : \A o \in S : e <= o
         IN  <<m>> \o sorted(S \ {m})

\* one-line files over a small alphabet, with and without the terminator
LineChars == {" ", "#", ";", "x"}

GeneratedLines ==
    { b \o t : b \in SeqsUpTo(LineChars, MaxLen), t \in { << >>, <<"\n">> } } \ { << >> }

\* class / def lines the name rules are about
NameLines ==
    { <<"c","l","a","s","s"," ","m","y","C","l","a","s","s",":","\n">>,
      <<"c","l","a","s","s"," ","M","y","C","l","a","s","s",":","\n">>,
      <<" "," "," "," ","c","l","a","s","s"," ","n","a","m","e",":","\n">>,
      <<"c","l","a","s","s","i","f","y"," ","="," ","1","\n">>,
      <<"c","l","a","s","s","\n">>,
      <<"d","e","f"," ","M","y","F","u","n","c","(",")",":","\n">>,
      <<"d","e","f"," ","m","y","_","f","u","n","c","(",")",":","\n">>,
      <<" "," "," "," ","d","e","f"," ","N","a","m","e","(",")",":","\n">>,
      <<"d","e","f","X","y"," ","="," ","1","\n">>,
      <<"d","e","f","x","Y"," ","="," ","1","\n">>,
      <<"d","e","f","\n">> }

\* short lines for files of several lines: blank, whitespace-only, plain, and one
\* too short to hold a class name
ShortLineSet == { <<"\n">>, <<" ","\n">>, <<"x","\n">>, <<"c","l","a","s","s","\n">> }

ScanInputs ==
    { <<l>> : l \in GeneratedLines \cup NameLines } \cup SeqsUpTo(ShortLineSet, MaxLines)

----------------------------------------------------------------------------
(* State.                                                                  *)

VARIABLES
    mode,              \* "dir" / "file" / "invalid": what main finds at argv[1];
                       \* "scan": code_analyzer called on its own
    listing,           \* os.listdir(directory_path): the names, in any order
    fs,                \* the file behind each name (a corpus key)
    files,             \* read_directory's sorted list
    idx,               \* position of the for loop in files
    pc,                \* where the program is
    read,              \* the lines code_analyzer was given
    line_number,       \* the last line code_analyzer finished (0: none yet)
    blank_line_count,  \* code_analyzer's counter
    out,               \* everything printed so far
    stack,             \* nodes the visitor has still to visit, next first
    errors,            \* Analyzer.errors
    visited,           \* the nodes visited so far, in order
    exc                \* the exception that left read_file / code_analyzer ("" none)

vars == <<mode, listing, fs, files, idx, pc, read, line_number, blank_line_count,
          out, stack, errors, visited, exc>>

\* the path of the file being read
file_path == IF mode = "scan" THEN 0 ELSE files[idx]

CurKey == fs[file_path]

Diag(path, line, code) == [kind |-> "diag", path |-> path, line |-> line, code |-> code]

NotFound(path) == [kind |-> "notfound", path |-> path, line |-> 0, code |-> ""]

DirError(e) == [kind |-> "direrror", path |-> 0, line |-> 0, code |-> e]

Invalid == [kind |-> "invalid", path |-> 0, line |-> 0, code |-> ""]

\* print(f"{file_path}: Line {n}: {code} ...") for each entry of ds
Render(path, ds) == [i \in 1..Len(ds) |-> Diag(path, ds[i].line, ds[i].code)]

Init ==
    /\ mode \in {"dir", "file", "invalid"}
    /\ listing \in Listings
    /\ mode = "file" => Len(listing) = 1
    /\ mode = "invalid" => listing = << >>
    /\ fs \in [Range(listing) -> CorpusKeys]
    /\ files = << >>
    /\ idx = 0
    /\ pc = "main"
    /\ read = << >>
    /\ line_number = 0
    /\ blank_line_count = 0
    /\ out = << >>
    /\ stack = << >>
    /\ errors = << >>
    /\ visited = << >>
    /\ exc = ""

\* code_analyzer(read, file_path) called on its own
InitScan ==
    /\ mode = "scan"
    /\ listing = << >>
    /\ fs = << >>
    /\ files = << >>
    /\ idx = 0
    /\ pc = "scan"
    /\ read \in ScanInputs
    /\ line_number = 0
    /\ blank_line_count = 0
    /\ out = << >>
    /\ stack = << >>
    /\ errors = << >>
    /\ visited = << >>
    /\ exc = ""

\* main(): dispatch on the path
Main ==
    /\ pc = "main"
    /\ IF mode = "dir"
       THEN /\ files' = sorted(Range(listing))
            /\ pc' = "loop"
            /\ idx' = 0
            /\ out' = out
       ELSE IF mode = "file"
       THEN /\ files' = listing
            /\ pc' = "open1"
            /\ idx' = 1
            /\ out' = out
       ELSE /\ files' = files
            /\ pc' = "done"
            /\ idx' = idx
            /\ out' = Append(out, Invalid)
    /\ UNCHANGED <<mode, listing, fs, read, line_number, blank_line_count,
                   stack, errors, visited, exc>>

\* read_directory: the for loop takes the next file name, or ends (every listed
\* name is a regular file, so the os.path.isfile test in the loop holds)
LoopNext ==
    /\ pc = "loop"
    /\ IF idx < Len(files)
       THEN idx' = idx + 1 /\ pc' = "open1"
       ELSE idx' = idx /\ pc' = "done"
    /\ UNCHANGED <<mode, listing, fs, files, read, line_number, blank_line_count,
                   out, stack, errors, visited, exc>>

\* where control goes when read_file returns
AfterReadFile == IF mode = "dir" THEN "loop" ELSE "done"

\* an exception e leaves read_file (or code_analyzer, called on its own):
\* read_directory's `except Exception` prints it and ends the loop; main has
\* no handler, the process dies with a traceback
EscapedPc == IF mode = "dir" THEN "done" ELSE IF mode = "file" THEN "crashed" ELSE "raised"

EscapedOut(o, e) == IF mode = "dir" THEN Append(o, DirError(e)) ELSE o

\* read_file, first try block up to the call of code_analyzer
OpenForLines ==
    /\ pc = "open1"
    /\ IF Access(CurKey) = "missing"
       THEN /\ out' = Append(out, NotFound(file_path))
            /\ pc' = "open2"
            /\ exc' = exc
            /\ read' = read
       ELSE IF Access(CurKey) = "denied"
       THEN /\ out' = EscapedOut(out, "PermissionError")
            /\ pc' = EscapedPc
            /\ exc' = "PermissionError"
            /\ read' = read
       ELSE /\ out' = out
            /\ pc' = "scan"
            /\ exc' = exc
            /\ read' = Lines(CurKey)
    /\ line_number' = 0
    /\ blank_line_count' = 0
    /\ UNCHANGED <<mode, listing, fs, files, idx, stack, errors, visited>>

\* code_analyzer: one iteration of the loop over the lines
ScanLine ==
    /\ pc = "scan"
    /\ line_number < Len(read)
    /\ LET n == line_number + 1
           r == code_analyzer_line(read[n], blank_line_count)
           printed == out \o [i \in 1..Len(r.codes) |-> Diag(file_path, n, r.codes[i])]
       IN  /\ blank_line_count' = r.count
           /\ IF r.escaped
              THEN /\ out' = EscapedOut(printed, "IndexError")
                   /\ pc' = EscapedPc
                   /\ exc' = "IndexError"
                   /\ line_number' = line_number
              ELSE /\ out' = printed
                   /\ pc' = pc
                   /\ exc' = exc
                   /\ line_number' = n
    /\ UNCHANGED <<mode, listing, fs, files, idx, read, stack, errors, visited>>

\* code_analyzer returns
ScanEnd ==
    /\ pc = "scan"
    /\ line_number = Len(read)
    /\ pc' = IF mode = "scan" THEN "returned" ELSE "open2"
    /\ UNCHANGED <<mode, listing, fs, files, idx, read, line_number,
                   blank_line_count, out, stack, errors, visited, exc>>

\* read_file, second try block up to analyze_code's ast.parse
OpenForTree ==
    /\ pc = "open2"
    /\ IF Access(CurKey) = "missing"
       THEN /\ out' = Append(out, NotFound(file_path))
            /\ pc' = AfterReadFile
            /\ exc' = exc
            /\ stack' = stack
       ELSE IF ~Parses(CurKey)
       THEN /\ out' = EscapedOut(out, "SyntaxError")
            /\ pc' = EscapedPc
            /\ exc' = "SyntaxError"
            /\ stack' = stack
       ELSE /\ out' = out
            /\ pc' = "visit"
            /\ exc' = exc
            /\ stack' = <<1>>
    /\ errors' = << >>
    /\ visited' = << >>
    /\ UNCHANGED <<mode, listing, fs, files, idx, read, line_number, blank_line_count>>

\* Analyzer.visit(node): the visitor method of the node's kind, then its children
Visit ==
    /\ pc = "visit"
    /\ stack # << >>
    /\ LET n == Head(stack)
       IN  /\ errors' = errors \o VisitErrors(Tree(CurKey), n)
           /\ stack' = generic_visit(Tree(CurKey), n) \o Tail(stack)
           /\ visited' = Append(visited, n)
    /\ UNCHANGED <<mode, listing, fs, files, idx, pc, read, line_number,
                   blank_line_count, out, exc>>

\* analyze_code returns analyzer.errors and read_file prints them
PrintErrors ==
    /\ pc = "visit"
    /\ stack = << >>
    /\ out' = out \o Render(file_path, errors)
    /\ pc' = AfterReadFile
    /\ UNCHANGED <<mode, listing, fs, files, idx, read, line_number,
                   blank_line_count, stack, errors, visited, exc>>

Next ==
    \/ Main
    \/ LoopNext
    \/ OpenForLines
    \/ ScanLine
    \/ ScanEnd
    \/ OpenForTree
    \/ Visit
    \/ PrintErrors

NextScan == ScanLine \/ ScanEnd

Spec == Init /\ [][Next]_vars

SpecScan == InitScan /\ [][NextScan]_vars

----------------------------------------------------------------------------
(* Vocabulary of the properties, stated on the text and the tree           *)
(* themselves rather than through the rules above.                         *)

LineCodes == <<"S001", "S002", "S003", "S004", "S005", "S006", "S007", "S008", "S009">>

TreeCodes == {"S010", "S011", "S012"}

IsLineDiag(r) == r.kind = "diag" /\ r.code \in Range(LineCodes)

IsTreeDiag(r) == r.kind = "diag" /\ r.code \in TreeCodes

CodeRank(c) == CHOOSE i \in 1..Len(LineCodes) : LineCodes[i] = c

\* how many times `code` was printed for line n of the file being read
Emitted(n, code) ==
    Cardinality({ i \in 1..Len(out) : out[i] = Diag(file_path, n, code) })

\* how many times the visitor recorded `code` at `line`
Recorded(line, code) ==
    Cardinality({ i \in 1..Len(errors) : errors[i] = [line |-> line, code |-> code] })

\* the tree diagnostics printed for path p, in the order printed
TreePart(p) == SelectSeq(out, LAMBDA r : IsTreeDiag(r) /\ r.path = p)

\* read_file has finished (returned or been left by an exception) for files[idx]
ReadFileOver == idx \in 1..Len(files) /\ pc \in {"loop", "done", "crashed"}

\* the visitor has walked the whole tree of the file being read
TreeWalked == mode # "scan" /\ visited # << >> /\ stack = << >>

IsBlankLine(l) == \A i \in 1..Len(l) : IsSpace(l[i])

\* length of the maximal run of blank lines that ends just before line n
BlankRunBefore(ls, n) ==
    CHOOSE k \in 0..(n - 1) :
        /\ \A i \in (n - k)..(n - 1) : IsBlankLine(ls[i])
        /\ (k < n - 1 => ~IsBlankLine(ls[n - k - 1]))

\* the line without its leading whitespace
LeftStripped(l) == SubSeq(l, LeadCount(l, FALSE) + 1, Len(l))

\* lowercase letter or underscore, then lowercase letters, digits, underscores
SnakeCaseName(name) ==
    /\ name # << >>
    /\ name[1] \notin DigitChars
    /\ \A i \in 1..Len(name) :
          name[i] \in Range(LowerLetters) \cup DigitChars \cup {"_"}

\* parents before children, siblings in source order
RECURSIVE Preorder(_, _)
Preorder(tree, ns) ==
    IF ns = << >> THEN << >>
    ELSE <<Head(ns)>> \o Preorder(tree, tree[Head(ns)].children)
                      \o Preorder(tree, Tail(ns))

RECURSIVE ErrorsAlong(_, _)
ErrorsAlong(tree, ns) ==
    IF ns = << >> THEN << >>
    ELSE VisitErrors(tree, Head(ns)) \o ErrorsAlong(tree, Tail(ns))

----------------------------------------------------------------------------
(* C1: when read_file is over for a readable file whose text does not      *)
(* parse, every line was line-scanned, no S010-S012 was printed for it,    *)
(* and the parse failure did not leave read_file as an exception.          *)
C1_ParseFailureContained ==
    (ReadFileOver /\ Access(CurKey) = "ok" /\ ~Parses(CurKey)) =>
        /\ read = Lines(CurKey)
        /\ line_number = Len(read)
        /\ TreePart(file_path) = << >>
        /\ exc = ""
        /\ pc # "crashed"

(* C2: when a directory run is over, the loop has handed every file of the *)
(* sorted list to read_file, whatever happened in the files before it.     *)
C2_EveryFileProcessed ==
    (mode = "dir" /\ pc = "done") => idx = Len(files)

(* C3: when code_analyzer is over for a file, S006 was printed exactly     *)
(* once at each non-blank line preceded by a run of 3 or more blank lines  *)
(* and never anywhere else, and the counter is 0 after a non-blank line.   *)
C3_BlankRunRule ==
    (mode = "scan" /\ pc \in {"returned", "raised"}) =>
        /\ \A n \in 1..Len(read) :
              Emitted(n, "S006") =
                  IF ~IsBlankLine(read[n]) /\ BlankRunBefore(read, n) >= 3
                  THEN 1 ELSE 0
        /\ (line_number >= 1 /\ ~IsBlankLine(read[line_number])) =>
              blank_line_count = 0

\* The same rule on the lines the scan got through: it holds there, so C3 fails
\* only where an exception (C5) ends the scan before a line is reached.
BlankRunRuleOnScannedLines ==
    mode = "scan" =>
        /\ \A n \in 1..line_number :
              Emitted(n, "S006") =
                  IF ~IsBlankLine(read[n]) /\ BlankRunBefore(read, n) >= 3
                  THEN 1 ELSE 0
        /\ (line_number >= 1 /\ ~IsBlankLine(read[line_number])) =>
              blank_line_count = 0

(* C4: the diagnostics printed for one file are ordered: no line-scanner   *)
(* diagnostic follows a tree-scanner diagnostic, the line-scanner ones     *)
(* have non-decreasing line numbers and, within a line, come in the order  *)
(* S001..S009, and the tree-scanner ones are in tree-traversal order.      *)
C4_EmissionOrder ==
    /\ \A i, j \in 1..Len(out) :
          (i < j /\ out[i].kind = "diag" /\ out[j].kind = "diag"
                 /\ out[i].path = out[j].path) =>
              /\ IsTreeDiag(out[i]) => IsTreeDiag(out[j])
              /\ (IsLineDiag(out[i]) /\ IsLineDiag(out[j])) =>
                    \/ out[i].line < out[j].line
                    \/ /\ out[i].line = out[j].line
                       /\ CodeRank(out[i].code) < CodeRank(out[j].code)
    /\ \A p \in Range(files) :
          TreePart(p) # << >> =>
              TreePart(p) = Render(p, ErrorsAlong(Tree(fs[p]), Preorder(Tree(fs[p]), <<1>>)))

\* C4's case: one line with two line diagnostics, and a tree diagnostic printed
\* after a line diagnostic of a later line
C4_Witness ==
    /\ \E i, j \in 1..Len(out) :
          /\ i < j /\ IsLineDiag(out[i]) /\ IsLineDiag(out[j])
          /\ out[i].path = out[j].path /\ out[i].line = out[j].line
    /\ \E i, j \in 1..Len(out) :
          /\ i < j /\ IsLineDiag(out[i]) /\ IsTreeDiag(out[j])
          /\ out[i].path = out[j].path /\ out[j].line < out[i].line
    /\ \E p \in Range(files) : Len(TreePart(p)) >= 2

(* C5: code_analyzer never lets anything but its nine diagnostics out: no  *)
(* line makes the scan stop with an exception.                             *)
C5_RulesNeverRaise ==
    mode = "scan" => (pc # "raised" /\ exc = "")

C7_KeywordPrefix ==
    mode = "scan" =>
        \A n \in 1..line_number :
            LET s == LeftStripped(read[n])
                isClass == startswith(s, KwClass \o <<" ">>)
                isDef == startswith(s, KwDef \o <<" ">>)
            IN  /\ Emitted(n, "S008") > 0 => isClass
                /\ Emitted(n, "S009") > 0 => isDef
                /\ (isClass /\ Len(s) > 6 /\ islower(s[7])) => Emitted(n, "S008") = 1
                /\ (isDef /\ Len(s) > 4 /\ isupper(s[5])) => Emitted(n, "S009") = 1

(* C8: S004 is printed for a line iff its first `#` is not at index 0 and  *)
(* the number of spaces just before it is other than two.                  *)
C8_InlineCommentSpacing ==
    mode = "scan" =>
        \A n \in 1..line_number :
            LET l == read[n]
                h == find(l, "#")
                spaces == CHOOSE k \in 0..h :
                              /\ \A i \in (h - k + 1)..h : l[i] = " "
                              /\ (k < h => l[h - k] # " ")
            IN  (Emitted(n, "S004") = 1) <=> (h > 0 /\ spaces # 2)

(* C9: S003 is printed for a line iff the text before its first `#` (the   *)
(* whole line when it has none) ends with `;`, whitespace after it aside.  *)
C9_SemicolonRule ==
    mode = "scan" =>
        \A n \in 1..line_number :
            LET l == read[n]
                h == find(l, "#")
                code == rstrip(IF h >= 0 THEN SubSeq(l, 1, h) ELSE l)
            IN  (Emitted(n, "S003") = 1) <=> (code # << >> /\ code[Len(code)] = ";")

(* C10: the walk visits no node twice; when it is over every node of the   *)
(* tree has been visited, and at every line as many S011 are recorded as   *)
(* the line has store-context identifiers whose name is not snake_case.    *)
C10_FullTreeWalk ==
    (mode # "scan" /\ pc = "visit") =>
        LET tree == Tree(CurKey)
            badTargets(l) ==
                { n \in 1..Len(tree) :
                    /\ tree[n].kind = "Name" /\ tree[n].ctx = "Store"
                    /\ tree[n].lineno = l
                    /\ ~SnakeCaseName(tree[n].id) }
        IN  /\ \A i, j \in 1..Len(visited) : i # j => visited[i] # visited[j]
            /\ stack = << >> =>
                  /\ Range(visited) = 1..Len(tree)
                  /\ \A l \in 0..Len(read) :
                        Recorded(l, "S011") = Cardinality(badTargets(l))

\* C10's case: the walk of Nested.py is over and the assignment target Y, inside a
\* function inside a method inside a class, has its S011
C10_Witness ==
    /\ TreeWalked /\ pc = "visit"
    /\ CurKey = "Nested"
    /\ Recorded(4, "S011") = 1
    /\ Cardinality({ n \in Range(visited) : Tree(CurKey)[n].kind = "FunctionDef" }) = 2

====
